---------------------------- MODULE Spec2Model ----------------------------
(***************************************************************************)
(* AstraForge file extractor (extract_astraforge.py).                      *)
(*                                                                         *)
(* A Python str is modelled as a sequence of one-character strings, so     *)
(* that substring tests, replacement, stripping and splitting are computed *)
(* character by character, as the interpreter computes them.               *)
(*                                                                         *)
(* Two specifications:                                                     *)
(*   SpecV  one call of validate_safe_path(user_path, base_dir);           *)
(*   Spec   one run of extract_files(response_text, output_dir).           *)
(* os.path is platform dependent: `platform` is "posix" (posixpath) or     *)
(* "nt" (ntpath) and is chosen by the initial state.                       *)
(***************************************************************************)
EXTENDS Integers, Sequences, FiniteSets, TLC

VARIABLES
    platform,       \* which os.path implementation the interpreter loaded
    cwd,            \* os.getcwd(), read by os.path.abspath
    user_path,      \* validate_safe_path: first argument
    base_dir,       \* validate_safe_path: second argument
    ret,            \* validate_safe_path: the returned tuple (is_valid, safe_path)
    pc,             \* position in the running function
    response_text,  \* extract_files: first argument
    output_dir,     \* extract_files: second argument
    sections,       \* extract_files: result of re.split
    idx,            \* extract_files: index of the next element of sections
    current_file,   \* extract_files: declared path of the open section
    content,        \* extract_files: list of accumulated content strings
    log,            \* extract_files: list of log lines
    files,          \* the file system: file -> the text written to it
    dirs,           \* the file system: the directories that exist
    declared        \* history: every value lines 88-92 gave current_file, in order

vars == << platform, cwd, user_path, base_dir, ret, pc, response_text,
           output_dir, sections, idx, current_file, content, log, files, dirs,
           declared >>

-----------------------------------------------------------------------------
(* Characters *)

\* Python's None
None == << "None" >>

\* chr(96), the backquote, which a TLA+ string literal cannot hold
BACKTICK == "BACKTICK"

\* the characters of code point 32..126, in code point order
AsciiTable ==
    << " ", "!", "\"", "#", "$", "%", "&", "'", "(", ")", "*", "+", ",", "-", ".", "/",
       "0", "1", "2", "3", "4", "5", "6", "7", "8", "9", ":", ";", "<", "=", ">", "?",
       "@", "A", "B", "C", "D", "E", "F", "G", "H", "I", "J", "K", "L", "M", "N", "O",
       "P", "Q", "R", "S", "T", "U", "V", "W", "X", "Y", "Z", "[", "\\", "]", "^", "_",
       BACKTICK, "a", "b", "c", "d", "e", "f", "g", "h", "i", "j", "k", "l", "m", "n", "o",
       "p", "q", "r", "s", "t", "u", "v", "w", "x", "y", "z", "{", "|", "}", "~" >>

\* the control characters the model's inputs use, with their code points
ControlTable == << <<"\t", 9>>, <<"\n", 10>>, <<"\f", 12>>, <<"\r", 13>> >>

Chars == { AsciiTable[k] : k \in 1..Len(AsciiTable) }
             \cup { ControlTable[k][1] : k \in 1..Len(ControlTable) }

OrdTable ==
    [ c \in Chars |->
        IF \E k \in 1..Len(ControlTable) : ControlTable[k][1] = c
        THEN ControlTable[CHOOSE k \in 1..Len(ControlTable) : ControlTable[k][1] = c][2]
        ELSE 31 + (CHOOSE k \in 1..Len(AsciiTable) : AsciiTable[k] = c) ]

\* ord(c)
ord(c) == OrdTable[c]

\* chr(n), for 32 <= n <= 126
chr(n) == AsciiTable[n - 31]

\* str.upper() on one character
upper_char(c) == IF ord(c) >= 97 /\ ord(c) <= 122 THEN chr(ord(c) - 32) ELSE c

\* str.lower() on one character
lower_char(c) == IF ord(c) >= 65 /\ ord(c) <= 90 THEN chr(ord(c) + 32) ELSE c

\* str.upper()
upper(s) == [ k \in 1..Len(s) |-> upper_char(s[k]) ]

\* str.lower()
lower(s) == [ k \in 1..Len(s) |-> lower_char(s[k]) ]

\* what str.strip() with no argument removes
IsSpace(c) == ord(c) \in {9, 10, 11, 12, 13, 28, 29, 30, 31, 32}

\* the regular expression class \w
IsWord(c) == \/ ord(c) >= 48 /\ ord(c) <= 57
             \/ ord(c) >= 65 /\ ord(c) <= 90
             \/ ord(c) >= 97 /\ ord(c) <= 122
             \/ ord(c) = 95

-----------------------------------------------------------------------------
(* str operations *)

\* s[i-1:] in Python's 0-based slicing: the suffix of s from position i
From(s, i) == SubSeq(s, i, Len(s))

\* s.startswith(t, i-1)
StartsWithAt(s, i, t) ==
    /\ i >= 1
    /\ i + Len(t) - 1 <= Len(s)
    /\ SubSeq(s, i, i + Len(t) - 1) = t

\* s.startswith(t)
startswith(s, t) == StartsWithAt(s, 1, t)

\* s.endswith(t)
endswith(s, t) == Len(t) <= Len(s) /\ SubSeq(s, Len(s) - Len(t) + 1, Len(s)) = t

\* s.find(t, i-1), 1-based; 0 where Python returns -1 (t is never empty here)
find(s, t, i) ==
    IF \E k \in i..Len(s) : StartsWithAt(s, k, t)
    THEN CHOOSE k \in i..Len(s) :
            /\ StartsWithAt(s, k, t)
            /\ \A j \in i..(k - 1) : ~StartsWithAt(s, j, t)
    ELSE 0

\* t in s
Contains(s, t) == find(s, t, 1) # 0

\* s.replace(old, new): left to right, non-overlapping, one pass; k is where
\* old is first found in s
RECURSIVE replace_at(_, _, _, _)
replace_at(s, old, new, k) ==
    IF k = 0 THEN s
    ELSE SubSeq(s, 1, k - 1) \o new
            \o replace_at(From(s, k + Len(old)), old, new,
                          find(From(s, k + Len(old)), old, 1))

\* s.replace(old, new)
replace(s, old, new) == replace_at(s, old, new, find(s, old, 1))

\* s.lstrip(chars), chars a set of characters
RECURSIVE lstrip(_, _)
lstrip(s, chars) ==
    IF s # << >> /\ s[1] \in chars THEN lstrip(Tail(s), chars) ELSE s

\* s.rstrip(chars)
RECURSIVE rstrip(_, _)
rstrip(s, chars) ==
    IF s # << >> /\ s[Len(s)] \in chars
    THEN rstrip(SubSeq(s, 1, Len(s) - 1), chars)
    ELSE s

\* the characters str.strip() with no argument removes
Whitespace == { c \in Chars : IsSpace(c) }

\* s.strip()
strip(s) == rstrip(lstrip(s, Whitespace), Whitespace)

\* s.strip(chars)
strip_chars(s, chars) == rstrip(lstrip(s, chars), chars)

\* s.split(sep): the list of the pieces of s between the occurrences of sep;
\* k is where sep is first found in s
RECURSIVE split_at(_, _, _)
split_at(s, sep, k) ==
    IF k = 0 THEN << s >>
    ELSE << SubSeq(s, 1, k - 1) >>
            \o split_at(From(s, k + Len(sep)), sep, find(From(s, k + Len(sep)), sep, 1))

\* s.split(sep)
split(s, sep) == split_at(s, sep, find(s, sep, 1))

\* sep.join(list)
RECURSIVE join(_, _)
join(sep, list) ==
    IF list = << >> THEN << >>
    ELSE IF Len(list) = 1 THEN list[1]
    ELSE list[1] \o sep \o join(sep, Tail(list))

-----------------------------------------------------------------------------
(* os.path.  posixpath and ntpath as the standard library defines them; the *)
(* source calls them through os.path at the lines the map names.            *)

SLASH == << "/" >>

BACKSLASH == << "\\" >>

DOT == << "." >>

DOTDOT == << ".", "." >>

COLON == << ":" >>

\* ntpath's unc_prefix, '\\?\UNC\'
UNC_PREFIX == << "\\", "\\", "?", "\\", "U", "N", "C", "\\" >>

\* s[:n]
Prefix(s, n) == SubSeq(s, 1, IF n < Len(s) THEN n ELSE Len(s))

\* s[:-1]
Front(s) == SubSeq(s, 1, Len(s) - 1)

\* sep * n
RECURSIVE Repeat(_, _)
Repeat(sep, n) == IF n = 0 THEN << >> ELSE sep \o Repeat(sep, n - 1)

\* posixpath.isabs
posix_isabs(s) == startswith(s, SLASH)

\* posixpath.join(a, b)
posix_join(a, b) ==
    IF startswith(b, SLASH) THEN b
    ELSE IF a = << >> \/ endswith(a, SLASH) THEN a \o b
    ELSE a \o SLASH \o b

\* the loop of posixpath.normpath over the components
RECURSIVE posix_collapse(_, _, _)
posix_collapse(comps, new_comps, initial_slashes) ==
    IF comps = << >> THEN new_comps
    ELSE LET comp == Head(comps)
             rest == Tail(comps)
         IN  IF comp = << >> \/ comp = DOT
             THEN posix_collapse(rest, new_comps, initial_slashes)
             ELSE IF \/ comp # DOTDOT
                     \/ (initial_slashes = 0 /\ new_comps = << >>)
                     \/ (new_comps # << >> /\ new_comps[Len(new_comps)] = DOTDOT)
             THEN posix_collapse(rest, Append(new_comps, comp), initial_slashes)
             ELSE IF new_comps # << >>
             THEN posix_collapse(rest, Front(new_comps), initial_slashes)
             ELSE posix_collapse(rest, new_comps, initial_slashes)

\* posixpath.normpath: the number of leading slashes kept
initial_slashes(path) ==
    IF ~startswith(path, SLASH) THEN 0
    ELSE IF startswith(path, Repeat(SLASH, 2)) /\ ~startswith(path, Repeat(SLASH, 3))
    THEN 2
    ELSE 1

\* posixpath.normpath: the last line, path or dot
or_dot(path) == IF path = << >> THEN DOT ELSE path

\* posixpath.normpath: the path put together again, n leading slashes kept
posix_rejoin(path, n) ==
    or_dot(Repeat(SLASH, n) \o join(SLASH, posix_collapse(split(path, SLASH), << >>, n)))

\* posixpath.normpath
posix_normpath(path) ==
    IF path = << >> THEN DOT ELSE posix_rejoin(path, initial_slashes(path))

\* posixpath.abspath
posix_abspath(path) ==
    posix_normpath(IF posix_isabs(path) THEN path ELSE posix_join(cwd, path))

\* ntpath.isabs
nt_isabs(s) ==
    LET t == replace(Prefix(s, 3), SLASH, BACKSLASH)
    IN  startswith(t, BACKSLASH) \/ StartsWithAt(t, 2, COLON \o BACKSLASH)

\* ntpath.splitdrive, the UNC branch: index and index2 are where the
\* separators after the host and after the share are found
unc_drive(p, index, index2) ==
    IF index = 0 THEN << p, << >> >>
    ELSE IF index2 = 0 THEN << p, << >> >>
    ELSE << SubSeq(p, 1, index2 - 1), From(p, index2) >>

\* ntpath.splitdrive, the UNC branch: index is where the separator after the
\* host is found
unc_share(p, normp, index) ==
    unc_drive(p, index, IF index = 0 THEN 0 ELSE find(normp, BACKSLASH, index + 1))

\* ntpath.splitdrive: normp is p with '/' replaced by '\'
splitdrive_norm(p, normp) ==
    IF Prefix(normp, 2) = Repeat(BACKSLASH, 2)
    THEN unc_share(p, normp,
                   find(normp, BACKSLASH,
                        (IF upper(Prefix(normp, 8)) = UNC_PREFIX THEN 8 ELSE 2) + 1))
    ELSE IF SubSeq(normp, 2, 2) = COLON
    THEN << SubSeq(p, 1, 2), From(p, 3) >>
    ELSE << << >>, p >>

\* ntpath.splitdrive: the pair (drive_or_unc, path)
nt_splitdrive(p) ==
    IF Len(p) >= 2 THEN splitdrive_norm(p, replace(p, SLASH, BACKSLASH))
    ELSE << << >>, p >>

\* ntpath.join: the drive and the path of the result put together
join_result(result_drive, result_path) ==
    IF /\ result_path # << >>
       /\ result_path[1] \notin {"\\", "/"}
       /\ result_drive # << >>
       /\ result_drive[Len(result_drive)] # ":"
    THEN result_drive \o BACKSLASH \o result_path
    ELSE result_drive \o result_path

\* ntpath.join: rd, rp the drive and path of the first argument, pd, pp those
\* of the second
join_parts(rd, rp, pd, pp) ==
    IF pp # << >> /\ pp[1] \in {"\\", "/"}
    THEN join_result(IF pd # << >> \/ rd = << >> THEN pd ELSE rd, pp)
    ELSE IF pd # << >> /\ pd # rd /\ lower(pd) # lower(rd)
    THEN join_result(pd, pp)
    ELSE join_result(IF pd # << >> /\ pd # rd THEN pd ELSE rd,
                     (IF rp # << >> /\ rp[Len(rp)] \notin {"\\", "/"}
                      THEN rp \o BACKSLASH ELSE rp) \o pp)

\* ntpath.join: r and q the two arguments split by splitdrive
join_split(r, q) == join_parts(r[1], r[2], q[1], q[2])

\* ntpath.join(path, p)
nt_join(path, p) == join_split(nt_splitdrive(path), nt_splitdrive(p))

\* the loop of ntpath.normpath over the components
RECURSIVE nt_collapse(_, _, _)
nt_collapse(comps, kept, prefix) ==
    IF comps = << >> THEN kept
    ELSE LET comp == Head(comps)
             rest == Tail(comps)
         IN  IF comp = << >> \/ comp = DOT
             THEN nt_collapse(rest, kept, prefix)
             ELSE IF comp = DOTDOT
             THEN IF kept # << >> /\ kept[Len(kept)] # DOTDOT
                  THEN nt_collapse(rest, Front(kept), prefix)
                  ELSE IF kept = << >> /\ endswith(prefix, BACKSLASH)
                  THEN nt_collapse(rest, kept, prefix)
                  ELSE nt_collapse(rest, Append(kept, comp), prefix)
             ELSE nt_collapse(rest, Append(kept, comp), prefix)

\* ntpath.normpath: the result put together
nt_rejoin(prefix, comps) ==
    IF prefix = << >> /\ comps = << >> THEN DOT ELSE prefix \o join(BACKSLASH, comps)

\* ntpath.normpath: prefix the drive with the root; rest the path below it
nt_components(prefix, rest) ==
    nt_rejoin(prefix, nt_collapse(split(rest, BACKSLASH), << >>, prefix))

\* ntpath.normpath: drive and path the two parts splitdrive gives
nt_normpath_parts(drive, path) ==
    IF startswith(path, BACKSLASH)
    THEN nt_components(drive \o BACKSLASH, lstrip(path, {"\\"}))
    ELSE nt_components(drive, path)

\* ntpath.normpath: sd the path split by splitdrive
nt_normpath_split(sd) == nt_normpath_parts(sd[1], sd[2])

\* ntpath.normpath
nt_normpath(path) == nt_normpath_split(nt_splitdrive(replace(path, SLASH, BACKSLASH)))

\* ntpath.abspath (its portable definition, _abspath_fallback)
nt_abspath(path) ==
    nt_normpath(IF nt_isabs(path) THEN path ELSE nt_join(cwd, path))

\* os.sep
os_sep == IF platform = "nt" THEN BACKSLASH ELSE SLASH

\* os.path.isabs
os_path_isabs(s) == IF platform = "nt" THEN nt_isabs(s) ELSE posix_isabs(s)

\* os.path.join
os_path_join(a, b) == IF platform = "nt" THEN nt_join(a, b) ELSE posix_join(a, b)

\* os.path.normpath
os_path_normpath(path) ==
    IF platform = "nt" THEN nt_normpath(path) ELSE posix_normpath(path)

\* os.path.abspath
os_path_abspath(path) ==
    IF platform = "nt" THEN nt_abspath(path) ELSE posix_abspath(path)

-----------------------------------------------------------------------------
(* validate_safe_path *)

\* line 19: ''.join(c for c in user_path if ord(c) >= 32)
remove_control(s) == SelectSeq(s, LAMBDA c : ord(c) >= 32)

\* line 22: dangerous_patterns
dangerous_patterns ==
    << << ".", ".", "/" >>, << ".", ".", "\\" >>, << ".", "/" >>, << ".", "\\" >> >>

\* line 23 with a plausible slip: only the parent-directory patterns '../' and
\* '..\' are looked for
has_dangerous_pattern_parent_only(sanitized) ==
    \E k \in 1..2 : Contains(sanitized, dangerous_patterns[k])

\* line 23: any(pattern in sanitized for pattern in dangerous_patterns)
has_dangerous_pattern(sanitized) ==
    \E k \in 1..Len(dangerous_patterns) : Contains(sanitized, dangerous_patterns[k])

\* line 31: sanitized.replace('\\', '/').replace('//', '/')
normalize_separators(sanitized) ==
    replace(replace(sanitized, BACKSLASH, SLASH), SLASH \o SLASH, SLASH)

\* line 32: re.sub(r'[<>:"|?*\x00-\x1f]', '', sanitized)
remove_dangerous_chars(sanitized) ==
    SelectSeq(sanitized,
              LAMBDA c : ~(c \in {"<", ">", ":", "\"", "|", "?", "*"} \/ ord(c) <= 31))

\* line 43: reserved_names
reserved_names ==
    { <<"C","O","N">>, <<"P","R","N">>, <<"A","U","X">>, <<"N","U","L">> }
        \cup { <<"C","O","M">> \o << chr(48 + n) >> : n \in 1..9 }
        \cup { <<"L","P","T">> \o << chr(48 + n) >> : n \in 1..9 }

\* lines 44-47 with a plausible slip: the name is compared without .upper()
has_reserved_name_case_sensitive(path_parts) ==
    \E k \in 1..Len(path_parts) : split(path_parts[k], DOT)[1] \in reserved_names

\* lines 44-47: some part of the path names a reserved device
has_reserved_name(path_parts) ==
    \E k \in 1..Len(path_parts) :
        upper(split(path_parts[k], DOT)[1]) \in reserved_names

\* line 53: full_path.startswith(base_abs + os.sep) or full_path == base_abs
path_within(full_path, base_abs) ==
    startswith(full_path, base_abs \o os_sep) \/ full_path = base_abs

\* lines 51-53 with a plausible slip: the joined path is compared without
\* os.path.normpath
within_base_dir_unnormalized(base, sanitized) ==
    path_within(os_path_join(base, sanitized), os_path_abspath(base))

\* lines 51-53: the joined path lies within base_dir
within_base_dir(base, sanitized) ==
    path_within(os_path_normpath(os_path_join(base, sanitized)), os_path_abspath(base))

\* lines 37-58: the checks on the sanitized string
validate_sanitized(sanitized, base) ==
    IF sanitized = << >> THEN << FALSE, None >>
    ELSE IF has_reserved_name(split(sanitized, SLASH)) THEN << FALSE, None >>
    ELSE IF ~within_base_dir(base, sanitized) THEN << FALSE, None >>
    ELSE << TRUE, sanitized >>

\* lines 21-35: the checks on the string without control characters, and its
\* sanitization
validate_printable(sanitized, base) ==
    IF has_dangerous_pattern(sanitized) THEN << FALSE, None >>
    ELSE IF os_path_isabs(sanitized) THEN << FALSE, None >>
    ELSE validate_sanitized(
             strip_chars(remove_dangerous_chars(normalize_separators(sanitized)), {"/"}),
             base)

\* validate_safe_path(user_path, base_dir): the tuple (is_valid, safe_path)
validate_safe_path(path, base) ==
    IF path = None \/ path = << >> THEN << FALSE, None >>
    ELSE validate_printable(remove_control(path), base)

-----------------------------------------------------------------------------
(* Inputs *)

\* the largest number of fragments a generated path is made of
MaxPathFrags == 4

\* the pieces generated paths are made of: a name, the separators, the dot,
\* a character line 32 removes, a control character, a reserved name
PathFragments ==
    { <<"a">>, DOT, SLASH, BACKSLASH, COLON, <<"\n">>, <<"n","u","l">> }

\* the paths the specification names
ExamplePaths ==
    { <<"s","r","c","/","a",".","t","s">>,
      <<".",".","/","e","v","i","l",".","t","s">>,
      <<"c","o","m","1">>,
      <<"C","o","n",".","t","x","t">>,
      <<"s","u","b","/","N","U","L","/","f","i","l","e",".","t","s">>,
      <<"C",":","\\","x">>,
      <<"s","r","c","/",".",".","/",".",".","/","e",".","t","s">> }

\* the concatenation of a sequence of strings
RECURSIVE Concat(_)
Concat(list) == IF list = << >> THEN << >> ELSE Head(list) \o Concat(Tail(list))

\* every string made of at most n pieces of the set frags
Generated(frags, n) ==
    { Concat(fs) : fs \in UNION { [1..k -> frags] : k \in 0..n } }

\* what a caller may pass as user_path: a str, or None
PathInputs == Generated(PathFragments, MaxPathFrags) \cup ExamplePaths \cup {None}

\* an interpreter: its os.path, its working directory, and the output
\* directories tried on it, relative ('out/', the default 'astraforge-ide')
\* and absolute
Environments ==
    { [platform |-> "posix", cwd |-> <<"/","w">>, base |-> <<"o","u","t","/">>],
      [platform |-> "posix", cwd |-> <<"/","w">>, base |-> <<"/","o","u","t">>],
      [platform |-> "posix", cwd |-> <<"/","w">>, base |-> <<"/">>],
      [platform |-> "nt", cwd |-> <<"C",":","\\","w">>,
       base |-> <<"a","s","t","r","a","f","o","r","g","e","-","i","d","e">>],
      [platform |-> "nt", cwd |-> <<"C",":","\\","w">>,
       base |-> <<"C",":","\\","o","u","t">>] }

-----------------------------------------------------------------------------
(* SpecV: one call of validate_safe_path *)

InitV ==
    /\ \E e \in Environments :
          /\ platform = e.platform
          /\ cwd = e.cwd
          /\ base_dir = e.base
    /\ user_path \in PathInputs
    /\ ret = None
    /\ pc = "call"
    /\ response_text = None
    /\ output_dir = None
    /\ sections = << >>
    /\ idx = 0
    /\ current_file = None
    /\ content = << >>
    /\ log = << >>
    /\ files = << >>
    /\ dirs = {}
    /\ declared = << >>

\* the call returns
Validate ==
    /\ pc = "call"
    /\ ret' = validate_safe_path(user_path, base_dir)
    /\ pc' = "return"
    /\ UNCHANGED << platform, cwd, user_path, base_dir, response_text, output_dir,
                    sections, idx, current_file, content, log, files, dirs,
                    declared >>

NextV == Validate

SpecV == InitV /\ [][NextV]_vars

-----------------------------------------------------------------------------
(* extract_files: the regular expressions *)

\* '## File: '
FILE_MARKER == << "#", "#", " ", "F", "i", "l", "e", ":", " " >>

\* '### '
HASH_MARKER == << "#", "#", "#", " " >>

\* the fence of a code block
FENCE == << BACKTICK, BACKTICK, BACKTICK >>

NEWLINE == << "\n" >>

\* the largest element of a set of numbers, 0 when it is empty
MaxOf(S) == IF S = {} THEN 0 ELSE CHOOSE j \in S : \A k \in S : k <= j

\* the smallest element of a set of numbers, 0 when it is empty
MinOf(S) == IF S = {} THEN 0 ELSE CHOOSE j \in S : \A k \in S : j <= k

\* the last position of the line position i lies on; nl is where the next line
\* break is found
LineEnd(s, nl) == IF nl = 0 THEN Len(s) ELSE nl - 1

\* where the last suf that starts at from or later and ends by line_end ends
\* (one past its last character), 0 when there is none
LastEnd(s, from, line_end, suf) ==
    IF { j \in from..line_end : StartsWithAt(s, j, suf) /\ j + Len(suf) - 1 <= line_end } = {}
    THEN 0
    ELSE MaxOf({ j \in from..line_end :
                    StartsWithAt(s, j, suf) /\ j + Len(suf) - 1 <= line_end }) + Len(suf)

\* where a match of  pre .* suf  that starts at i ends (one past its last
\* character), 0 when there is none: '.' matches all but the line break and
\* '*' is greedy, so suf is the last one on the line
GreedyEnd(s, i, pre, suf) ==
    IF ~StartsWithAt(s, i, pre) THEN 0
    ELSE LastEnd(s, i + Len(pre), LineEnd(s, find(s, NEWLINE, i + Len(pre))), suf)

\* '### src/'
SRC_PREFIX == HASH_MARKER \o << "s", "r", "c", "/" >>

\* '### media/'
MEDIA_PREFIX == HASH_MARKER \o << "m", "e", "d", "i", "a", "/" >>

\* '### media/styles.css'
STYLES_MARKER == MEDIA_PREFIX \o << "s", "t", "y", "l", "e", "s", ".", "c", "s", "s" >>

\* line 66: the last two alternatives, ### media/.*\.js and
\* ### media/styles\.css; js_end is where a match of the first ends
MediaEnd(s, i, js_end) ==
    IF js_end # 0 THEN js_end
    ELSE IF StartsWithAt(s, i, STYLES_MARKER) THEN i + Len(STYLES_MARKER)
    ELSE 0

\* line 66: the alternatives after '## File: '; src_end is where a match of
\* ### src/.*\.ts ends
HashEnd(s, i, src_end) ==
    IF src_end # 0 THEN src_end
    ELSE MediaEnd(s, i, GreedyEnd(s, i, MEDIA_PREFIX, << ".", "j", "s" >>))

\* line 66: where a match of
\*   (## File: |### src/.*\.ts|### media/.*\.js|### media/styles\.css)
\* that starts at i ends, 0 when there is none; the alternatives in order
MarkerEnd(s, i) ==
    IF StartsWithAt(s, i, FILE_MARKER) THEN i + Len(FILE_MARKER)
    ELSE HashEnd(s, i, GreedyEnd(s, i, SRC_PREFIX, << ".", "t", "s" >>))

\* re.split with one capturing group: the text before each match and the match,
\* alternating, then the text after the last match; start is where the text
\* not yet given out begins, i the position tried next, e where a match at i ends
RECURSIVE re_split_from(_, _, _, _)
re_split_from(s, start, i, e) ==
    IF i > Len(s) THEN << SubSeq(s, start, Len(s)) >>
    ELSE IF e = 0 THEN re_split_from(s, start, i + 1, MarkerEnd(s, i + 1))
    ELSE << SubSeq(s, start, i - 1), SubSeq(s, i, e - 1) >>
             \o re_split_from(s, e, e, MarkerEnd(s, e))

\* line 66: re.split(r'(...)', response_text)
re_split(s) == re_split_from(s, 1, 1, MarkerEnd(s, 1))

\* the number of \w characters of s from position i on
RECURSIVE WordRun(_, _)
WordRun(s, i) == IF i <= Len(s) /\ IsWord(s[i]) THEN 1 + WordRun(s, i + 1) ELSE 0

\* where group 1 of a match of  ```(?:\w+)?\n(.*?)```  (re.DOTALL) begins when
\* the line break is at nl, 0 when there is no match
FenceBodyAt(s, nl) ==
    IF StartsWithAt(s, nl, NEWLINE) /\ find(s, FENCE, nl + 1) # 0 THEN nl + 1 ELSE 0

\* where group 1 of a match that starts at i begins, 0 when there is none
FenceBody(s, i) ==
    IF ~StartsWithAt(s, i, FENCE) THEN 0
    ELSE FenceBodyAt(s, i + Len(FENCE) + WordRun(s, i + Len(FENCE)))

\* group(1) of the match whose group 1 begins at body: up to the next fence
FenceGroup(part, body) ==
    IF body = 0 THEN << FALSE, None >>
    ELSE << TRUE, SubSeq(part, body, find(part, FENCE, body) - 1) >>

\* line 96: re.search(r'```(?:\w+)?\n(.*?)```', part, re.DOTALL), as the pair
\* (matched, group(1)): the leftmost match
code_match(part) ==
    FenceGroup(part, FenceBody(part, MinOf({ i \in 1..Len(part) : FenceBody(part, i) # 0 })))

-----------------------------------------------------------------------------
(* extract_files: the file system *)

\* posixpath.dirname: head is the path up to its last slash
posix_head(head) ==
    IF head # << >> /\ head # Repeat(SLASH, Len(head)) THEN rstrip(head, {"/"})
    ELSE head

\* posixpath.dirname
posix_dirname(p) == posix_head(SubSeq(p, 1, MaxOf({ k \in 1..Len(p) : p[k] = "/" })))

\* ntpath.dirname: head is the path up to its last separator
nt_head(head) ==
    IF rstrip(head, {"\\", "/"}) # << >> THEN rstrip(head, {"\\", "/"}) ELSE head

\* ntpath.dirname: d and p the two parts splitdrive gives
nt_dirname_parts(d, p) ==
    d \o nt_head(SubSeq(p, 1, MaxOf({ k \in 1..Len(p) : p[k] \in {"\\", "/"} })))

\* ntpath.dirname: sd the path split by splitdrive
nt_dirname_split(sd) == nt_dirname_parts(sd[1], sd[2])

\* ntpath.dirname
nt_dirname(path) == nt_dirname_split(nt_splitdrive(path))

\* os.path.dirname
os_path_dirname(p) == IF platform = "nt" THEN nt_dirname(p) ELSE posix_dirname(p)

\* the file system object a path names
Location(p) == os_path_abspath(p)

\* a directory (given by its location) and the directories above it
Ancestors(d) ==
    { SubSeq(d, 1, k) : k \in { j \in 1..Len(d) : j = Len(d) \/ d[j + 1] \in {"/", "\\"} } }

\* os.makedirs(name, exist_ok=True) raises: a file stands where a directory must
makedirs_raises(name, files_now) ==
    \E d \in Ancestors(Location(name)) : d \in DOMAIN files_now

\* the directories after os.makedirs(name, exist_ok=True)
makedirs(name, dirs_now) == dirs_now \cup Ancestors(Location(name))

\* open(path, 'w') raises: the path names a directory
open_raises(path, dirs_now) == Location(path) \in dirs_now

\* the files after  with open(path, 'w') as f: f.write(text)
write_file(path, text, files_now) == (Location(path) :> text) @@ files_now

-----------------------------------------------------------------------------
(* extract_files *)

\* 'Skipped dangerous path: '
SKIPPED == << "S","k","i","p","p","e","d"," ","d","a","n","g","e","r","o","u","s"," ",
              "p","a","t","h",":"," " >>

\* 'Created: '
CREATED == << "C","r","e","a","t","e","d",":"," " >>

\* line 116: log_filename
log_filename == << "e","x","t","r","a","c","t","i","o","n","_","l","o","g",".","t","x","t" >>

\* the truth value of current_file: neither None nor ''
Truthy(x) == x # None /\ x # << >>

\* what a block of statements leaves behind, and whether it raised
Outcome(raised, log_now, files_now, dirs_now) ==
    [raised |-> raised, log |-> log_now, files |-> files_now, dirs |-> dirs_now]

\* lines 83-85 and 111-113: the file is written and logged, the directory
\* being there
write_and_log(file_path, text, dirs_now) ==
    IF open_raises(file_path, dirs_now) THEN Outcome(TRUE, log, files, dirs_now)
    ELSE Outcome(FALSE, Append(log, CREATED \o file_path),
                 write_file(file_path, text, files), dirs_now)

\* lines 82-85 and 110-113: the directory of the file is made, the file written
make_and_write(file_path, dir, text) ==
    IF makedirs_raises(dir, files) THEN Outcome(TRUE, log, files, dirs)
    ELSE write_and_log(file_path, text, makedirs(dir, dirs))

\* lines 81-85 and 109-113: the accepted path is joined to the output directory
create_file(file_path, lines) ==
    make_and_write(file_path, os_path_dirname(file_path), strip(join(NEWLINE, lines)))

\* lines 78-85 and 106-113: v is what validate_safe_path returned
skip_or_create(declared_path, lines, v) ==
    IF ~v[1] THEN Outcome(FALSE, Append(log, SKIPPED \o declared_path), files, dirs)
    ELSE create_file(os_path_join(output_dir, v[2]), lines)

\* lines 77-85 and 105-113: validate the declared path, then skip it or write
\* the file
save_file(declared_path, lines) ==
    skip_or_create(declared_path, lines, validate_safe_path(declared_path, output_dir))

\* no file to save
nothing_saved == Outcome(FALSE, log, files, dirs)

\* lines 88-92: the declared path a marker part carries
marker_path(part) ==
    IF startswith(part, FILE_MARKER)
    THEN strip(split(part, FILE_MARKER)[2])
    ELSE strip(split(part, HASH_MARKER)[2])

\* the largest number of fragments a generated document is made of
MaxDocFrags == 4

\* the pieces generated documents are made of: the '## File: ' marker, a path
\* on a line, '### ' markers (safe, with a traversal, below another file),
\* a heading that is no marker, a fenced block, a marker without a line break
DocFragments ==
    { FILE_MARKER,
      <<"s","r","c","/","a",".","t","s","\n">>,
      <<"#","#","#"," ","s","r","c","/","a",".","t","s","\n">>,
      <<"#","#","#"," ","s","r","c","/",".",".","/","e",".","t","s","\n">>,
      <<"#","#","#"," ","s","r","c","/","a",".","t","s","/","b",".","t","s","\n">>,
      <<"#","#","#"," ","N","o","t","e","s","\n">>,
      <<BACKTICK,BACKTICK,BACKTICK,"t","s","\n","c","o","n","s","t"," ","x","=","1",";",
        "\n",BACKTICK,BACKTICK,BACKTICK,"\n">>,
      <<"#","#","#"," ","m","e","d","i","a","/","m",".","j","s">> }

\* the document of the specification's end-to-end scenario
ScenarioDocument ==
    <<"#","#"," ","F","i","l","e",":"," ","s","r","c","/","a",".","t","s","\n",
      BACKTICK,BACKTICK,BACKTICK,"t","s","\n",
      "c","o","n","s","t"," ","x","=","1",";","\n",
      BACKTICK,BACKTICK,BACKTICK,"\n",
      "#","#"," ","F","i","l","e",":"," ",".",".","/","e","v","i","l",".","t","s","\n",
      BACKTICK,BACKTICK,BACKTICK,"t","s","\n","b","a","d","\n",
      BACKTICK,BACKTICK,BACKTICK,"\n">>

Documents == Generated(DocFragments, MaxDocFrags) \cup {ScenarioDocument}

Init ==
    /\ \E e \in Environments :
          /\ platform = e.platform
          /\ cwd = e.cwd
          /\ output_dir = e.base
    /\ response_text \in Documents
    /\ pc = "start"
    /\ user_path = None
    /\ base_dir = None
    /\ ret = None
    /\ sections = << >>
    /\ idx = 0
    /\ current_file = None
    /\ content = << >>
    /\ log = << >>
    /\ files = << >>
    /\ dirs = {}
    /\ declared = << >>

\* lines 62-69: create the output directory, split the text
Start ==
    /\ pc = "start"
    /\ dirs' = makedirs(output_dir, dirs)
    /\ log' = << >>
    /\ sections' = re_split(response_text)
    /\ current_file' = None
    /\ content' = << >>
    /\ idx' = 1
    /\ pc' = "loop"
    /\ UNCHANGED << platform, cwd, user_path, base_dir, ret, response_text,
                    output_dir, files, declared >>

\* line 73: part.startswith('## File: ') or part.startswith('### ')
is_marker(part) == startswith(part, FILE_MARKER) \/ startswith(part, HASH_MARKER)

\* lines 71-72: a part that is empty or white space is passed over
LoopBlank ==
    /\ pc = "loop"
    /\ idx <= Len(sections)
    /\ strip(sections[idx]) = << >>
    /\ idx' = idx + 1
    /\ UNCHANGED << platform, cwd, user_path, base_dir, ret, pc, response_text,
                    output_dir, sections, current_file, content, log, files, dirs,
                    declared >>

\* lines 74-93, saved being what lines 75-85 left behind: unless they raised,
\* the part's declared path opens the next section
OpenSection(saved, path) ==
    /\ log' = saved.log
    /\ files' = saved.files
    /\ dirs' = saved.dirs
    /\ IF saved.raised
       THEN /\ pc' = "raised"
            /\ UNCHANGED << current_file, content, idx, declared >>
       ELSE /\ pc' = "loop"
            /\ current_file' = path
            /\ declared' = Append(declared, path)
            /\ content' = << >>
            /\ idx' = idx + 1

\* lines 73-93: a part that starts like a marker closes the open section and
\* opens the next
LoopMarker ==
    /\ pc = "loop"
    /\ idx <= Len(sections)
    /\ strip(sections[idx]) # << >>
    /\ is_marker(sections[idx])
    /\ OpenSection(IF Truthy(current_file) THEN save_file(current_file, content)
                   ELSE nothing_saved,
                   marker_path(sections[idx]))
    /\ UNCHANGED << platform, cwd, user_path, base_dir, ret, response_text,
                    output_dir, sections >>

\* lines 96-100: the inside of the first fenced block of the part, or the part
content_of(part, m) == IF m[1] THEN m[2] ELSE part

\* lines 94-100: any other part is content
LoopContent ==
    /\ pc = "loop"
    /\ idx <= Len(sections)
    /\ strip(sections[idx]) # << >>
    /\ ~is_marker(sections[idx])
    /\ content' = Append(content, content_of(sections[idx], code_match(sections[idx])))
    /\ idx' = idx + 1
    /\ UNCHANGED << platform, cwd, user_path, base_dir, ret, pc, response_text,
                    output_dir, sections, current_file, log, files, dirs, declared >>

\* lines 102-113, saved being what they left behind
CloseSection(saved) ==
    /\ log' = saved.log
    /\ files' = saved.files
    /\ dirs' = saved.dirs
    /\ pc' = IF saved.raised THEN "raised" ELSE "log"

\* lines 102-113: after the last part, the open section is saved if it has a
\* declared path and content
SaveLast ==
    /\ pc = "loop"
    /\ idx > Len(sections)
    /\ CloseSection(IF Truthy(current_file) /\ content # << >>
                    THEN save_file(current_file, content)
                    ELSE nothing_saved)
    /\ UNCHANGED << platform, cwd, user_path, base_dir, ret, response_text,
                    output_dir, sections, idx, current_file, content, declared >>

\* lines 115-120: the log is written into the output directory
WriteLog ==
    /\ pc = "log"
    /\ files' = write_file(os_path_join(output_dir, log_filename), join(NEWLINE, log),
                           files)
    /\ pc' = "done"
    /\ UNCHANGED << platform, cwd, user_path, base_dir, ret, response_text,
                    output_dir, sections, idx, current_file, content, log, dirs,
                    declared >>

Next ==
    \/ Start
    \/ LoopBlank
    \/ LoopMarker
    \/ LoopContent
    \/ SaveLast
    \/ WriteLog

Spec == Init /\ [][Next]_vars

-----------------------------------------------------------------------------
(* The claims about validate_safe_path, checked under SpecV *)

\* the rejection
Rejected == << FALSE, None >>

\* the call has returned, and its argument was a str
Returned == pc = "return" /\ user_path # None

\* p without its characters of code point below 32
WithoutControl(p) == SelectSeq(p, LAMBDA c : ord(c) >= 32)

\* '../', '..\', './' or '.\' stands at position i of q
TraversalAt(q, i) ==
    \/ /\ i + 2 <= Len(q)
       /\ q[i] = "." /\ q[i + 1] = "." /\ q[i + 2] \in {"/", "\\"}
    \/ /\ i + 1 <= Len(q)
       /\ q[i] = "." /\ q[i + 1] \in {"/", "\\"}

\* q holds a traversal sequence somewhere
HasTraversal(q) == \E i \in 1..Len(q) : TraversalAt(q, i)

\* C2: every input that, its control characters removed, holds '../', '..\',
\* './' or '.\' at any position is rejected with (False, None).
C2_TraversalRejected ==
    (Returned /\ HasTraversal(WithoutControl(user_path))) => ret = Rejected

\* C2 happens: an input is rejected whose traversal sequence is not at its
\* start and appears only once a control character inside it is removed
C2_Witness ==
    /\ Returned
    /\ ~HasTraversal(user_path)
    /\ \E i \in 2..Len(WithoutControl(user_path)) :
          TraversalAt(WithoutControl(user_path), i)
    /\ ~TraversalAt(WithoutControl(user_path), 1)
    /\ ret = Rejected

IsLetter(c) == (ord(c) >= 65 /\ ord(c) <= 90) \/ (ord(c) >= 97 /\ ord(c) <= 122)

\* p is absolute under the POSIX or the Windows convention: a leading '/', a
\* leading '\', or a drive letter, a colon and a separator
AbsoluteEitherConvention(p) ==
    /\ p # << >>
    /\ \/ p[1] \in {"/", "\\"}
       \/ Len(p) >= 3 /\ IsLetter(p[1]) /\ p[2] = ":" /\ p[3] \in {"/", "\\"}

\* C3: every input that is an absolute path under either path convention is
\* rejected.
C3_AbsoluteRejected ==
    (Returned /\ AbsoluteEitherConvention(user_path)) => ret = Rejected

\* the reserved device names, in lower case
DeviceNames ==
    { <<"c","o","n">>, <<"p","r","n">>, <<"a","u","x">>, <<"n","u","l">> }
        \cup { <<"c","o","m">> \o << chr(48 + n) >> : n \in 1..9 }
        \cup { <<"l","p","t">> \o << chr(48 + n) >> : n \in 1..9 }

\* the segment cut at its first '.'
Stem(segment) ==
    IF \E k \in 1..Len(segment) : segment[k] = "."
    THEN SubSeq(segment, 1, (CHOOSE k \in 1..Len(segment) :
                                /\ segment[k] = "."
                                /\ \A j \in 1..(k - 1) : segment[j] # ".") - 1)
    ELSE segment

\* the k-th of the pieces of p between its '/'
Segment(p, k) == split(p, SLASH)[k]

\* the k-th segment of p, cut at its first '.', is a reserved name in any case
ReservedSegment(p, k) == lower(Stem(Segment(p, k))) \in DeviceNames

\* C4: every input with a '/'-delimited segment whose part before the first '.'
\* is, in any letter case, a reserved device name is rejected.
C4_ReservedRejected ==
    (Returned /\ \E k \in 1..Len(split(user_path, SLASH)) : ReservedSegment(user_path, k))
        => ret = Rejected

\* C4 happens: an input is rejected that no other check rejects, whose
\* reserved segment is not the first, is in lower case and has an extension
C4_Witness ==
    /\ Returned
    /\ \E k \in 2..Len(split(user_path, SLASH)) :
          /\ ReservedSegment(user_path, k)
          /\ Stem(Segment(user_path, k)) # Segment(user_path, k)
          /\ Stem(Segment(user_path, k)) = lower(Stem(Segment(user_path, k)))
    /\ ~HasTraversal(WithoutControl(user_path))
    /\ ~AbsoluteEitherConvention(user_path)
    /\ os_path_isabs(base_dir)
    /\ ret = Rejected

\* C5: whenever a path is accepted, the normalized join of base_dir and the
\* returned safe_path starts with the normalized absolute base_dir.
C5_Containment ==
    (pc = "return" /\ ret[1] = TRUE)
        => startswith(os_path_normpath(os_path_join(base_dir, ret[2])),
                      os_path_normpath(os_path_abspath(base_dir)))

\* C5 happens: a path with a directory in it is accepted, and sanitization
\* changed it
C5_Witness ==
    /\ pc = "return"
    /\ ret[1] = TRUE
    /\ Contains(ret[2], SLASH)
    /\ ret[2] # user_path

\* what lines 19-35 make of p
Sanitized(p) ==
    strip_chars(remove_dangerous_chars(normalize_separators(remove_control(p))), {"/"})

\* p meets none of the rejection conditions 1 to 5
PassesChecks1To5(p) ==
    /\ p # None
    /\ p # << >>
    /\ ~has_dangerous_pattern(remove_control(p))
    /\ ~os_path_isabs(remove_control(p))
    /\ Sanitized(p) # << >>
    /\ ~has_reserved_name(split(Sanitized(p), SLASH))

\* the absolute form of the join of base and relative is base's absolute form
\* or begins with it and a separator
JoinInsideBase(base, relative) ==
    path_within(os_path_abspath(os_path_join(base, relative)), os_path_abspath(base))

\* C6: a candidate that meets none of the rejection conditions 1 to 5 and whose
\* join with base_dir lies inside base_dir is accepted, with the sanitized
\* path returned, for relative and for absolute base_dir alike.
C6_SafeAccepted ==
    (pc = "return" /\ PassesChecks1To5(user_path)
        /\ JoinInsideBase(base_dir, Sanitized(user_path)))
        => ret = << TRUE, Sanitized(user_path) >>

\* C10: an accepted path is a fixed point of validate_safe_path and holds no
\* traversal sequence, no doubled slash and none of the characters <>:"|?*.
C10_FixedPoint ==
    (pc = "return" /\ ret[1] = TRUE)
        => /\ validate_safe_path(ret[2], base_dir) = ret
           /\ ~Contains(ret[2], << ".", ".", "/" >>)
           /\ ~Contains(ret[2], << ".", "/" >>)
           /\ ~Contains(ret[2], << "/", "/" >>)
           /\ \A k \in 1..Len(ret[2]) : ret[2][k] \notin {"<", ">", ":", "\"", "|", "?", "*"}

-----------------------------------------------------------------------------
(* The claims about extract_files, checked under Spec *)

\* the text up to its first line break
FirstLine(text) ==
    IF find(text, NEWLINE, 1) = 0 THEN text ELSE SubSeq(text, 1, find(text, NEWLINE, 1) - 1)

\* the markers of the document, in order: the matches of the marker pattern
Markers(text) == [ k \in 1..((Len(re_split(text)) - 1) \div 2) |-> re_split(text)[2 * k] ]

\* the text between the k-th marker and the next marker or the end
AfterMarker(text, k) == re_split(text)[2 * k + 1]

\* the path the k-th marker of the document carries: for '## File: <name>' the
\* text after the prefix up to the first line break, trimmed; for '### <path>'
\* the matched path
CarriedPath(text, k) ==
    IF Markers(text)[k] = FILE_MARKER
    THEN strip(FirstLine(AfterMarker(text, k)))
    ELSE strip(From(Markers(text)[k], Len(HASH_MARKER) + 1))

\* the paths the markers of the document carry, in document order
CarriedPaths(text) == [ k \in 1..Len(Markers(text)) |-> CarriedPath(text, k) ]

\* the log entry of a section with the given declared path
EntryFor(path) ==
    IF validate_safe_path(path, output_dir)[1]
    THEN CREATED \o os_path_join(output_dir, validate_safe_path(path, output_dir)[2])
    ELSE SKIPPED \o path

\* 'out/'
OutRoot == << "o", "u", "t", "/" >>

\* 'out/src/a.ts'
ScenarioFile == OutRoot \o << "s", "r", "c", "/", "a", ".", "t", "s" >>

\* C1: the end-to-end scenario over output root out/ gives a log of exactly two
\* entries, Created for src/a.ts (the file holding 'const x=1;') and then
\* Skipped for ../evil.ts, and writes no other file.
C1_Scenario ==
    (pc = "done" /\ response_text = ScenarioDocument /\ output_dir = OutRoot)
        => /\ log = << CREATED \o ScenarioFile,
                       SKIPPED \o << ".", ".", "/", "e", "v", "i", "l", ".", "t", "s" >> >>
           /\ DOMAIN files = { Location(ScenarioFile),
                               Location(os_path_join(output_dir, log_filename)) }
           /\ files[Location(ScenarioFile)]
                  = << "c", "o", "n", "s", "t", " ", "x", "=", "1", ";" >>

\* C7: when extract_files has finished, the log holds exactly one entry per
\* section of the document, in section order, a final marker with no text
\* after it included.
C7_OneEntryPerSection ==
    pc = "done"
        => /\ Len(log) = Len(Markers(response_text))
           /\ \A k \in 1..Len(log) : log[k] = EntryFor(CarriedPath(response_text, k))

\* the k-th section the run opened has a declared path that validate_safe_path
\* rejects
RejectedSection(k) ==
    Truthy(declared[k]) /\ ~validate_safe_path(declared[k], output_dir)[1]

\* C8: a section with a rejected path gets a Skipped entry with its declared
\* path, no file, and every later section still gets its own entry; the run
\* reaches the step that writes the log.  (Stated over the sections the run
\* itself opened, each with a non-empty declared path.)
C8_RejectionIsLocal ==
    (pc = "done" /\ \A k \in 1..Len(declared) : Truthy(declared[k]))
        => \A k \in 1..Len(declared) :
              RejectedSection(k)
                  => /\ k <= Len(log)
                     /\ log[k] = SKIPPED \o declared[k]
                     /\ \A j \in (k + 1)..Len(declared) :
                           j <= Len(log) /\ log[j] = EntryFor(declared[j])

\* C9: the declared paths extract_files derives are, in document order, the
\* paths the markers of the document carry and nothing else.
C9_DeclaredPaths ==
    pc = "done" => declared = CarriedPaths(response_text)

=============================================================================
